---- MODULE Spec2Model ----
(* Order-line analysis pipeline of streamlit_app.py: the four aggregators  *)
(* analyse_data, analyse_product_sales, analyse_profitability_over_time    *)
(* and analyse_first_and_repeat_purchases, and their composition in main() *)
(* on one shared, mutable order-line table df.                             *)
EXTENDS Integers, Sequences, FiniteSets, TLC

VARIABLES
    df,                     \* the order-line table loaded by load_data (base columns)
    columns,                \* derived columns present on df
    Revenue,                \* df['Revenue']
    Profit,                 \* df['Profit']
    Is_First_Item,          \* df['Is_First_Item']
    count_data,             \* results held by main(); <<>> before the first call
    revenue_data,
    order_data,
    product_analysis,
    profitability_data,
    first_repeat_analysis,
    pc,                     \* position in main(), or "any" / "KeyError"
    run                     \* 1 in the first run of the pipeline, 2 in the second

vars == <<df, columns, Revenue, Profit, Is_First_Item, count_data, revenue_data,
          order_data, product_analysis, profitability_data,
          first_repeat_analysis, pc, run>>

(***************************************************************************)
(* Input tables.  Order IDs, Emails and SKUs are identified by their rank  *)
(* in collation order; a date is <<year, month, day>>.                     *)
(***************************************************************************)
MaxRows == 2
MaxStackedFees == 2

OrderIDs == {1, 2}
Emails == {1, 2}
SKUs == {1, 2}
Dates == {<<2023, 12, 20>>, <<2024, 1, 5>>, <<2024, 1, 20>>}
Pricing == {[QTY |-> 2, UnitPrice |-> 10, UnitCost |-> 0],
            [QTY |-> 1, UnitPrice |-> 0, UnitCost |-> 40]}

OrderLines ==
    {[OrderID |-> o, Email |-> e, DatePlaced |-> d, SKU |-> s,
      QTY |-> p.QTY, UnitPrice |-> p.UnitPrice, UnitCost |-> p.UnitCost] :
        o \in OrderIDs, e \in Emails, d \in Dates, s \in SKUs, p \in Pricing}

Tables == UNION {[1..n -> OrderLines] : n \in 1..MaxRows}

\* Tables of the any-order specification: one customer, one product.
OrderLinesAny ==
    {r \in OrderLines : r.Email = 1 /\ r.SKU = 1}

TablesAny == UNION {[1..n -> OrderLinesAny] : n \in 1..MaxRows}

(***************************************************************************)
(* pandas primitives                                                       *)
(***************************************************************************)
RECURSIVE SumIdx(_, _)
SumIdx(f, S) ==
    IF S = {} THEN 0
    ELSE LET i == CHOOSE i \in S : TRUE IN f[i] + SumIdx(f, S \ {i})

Min(S) == CHOOSE x \in S : \A y \in S : x <= y

\* the distinct keys of a groupby, in ascending key order (sort=True)
RECURSIVE SortedKeys(_)
SortedKeys(S) ==
    IF S = {} THEN <<>>
    ELSE LET m == Min(S) IN <<m>> \o SortedKeys(S \ {m})

\* argsort of an integer key column, ties kept in row order
StableOrder(key) ==
    [k \in 1..Len(key) |->
        CHOOSE i \in 1..Len(key) :
            Cardinality({j \in 1..Len(key) :
                key[j] < key[i] \/ (key[j] = key[i] /\ j < i)}) = k - 1]

Permute(seq, ord) == [k \in 1..Len(seq) |-> seq[ord[k]]]

\* Timestamp ordering: a monotone day number
Ordinal(d) == (d[1] * 12 + (d[2] - 1)) * 31 + (d[3] - 1)

\* Series.dt.to_period('M')
to_period(d) == <<d[1], d[2]>>

\* Period.to_timestamp(): first day of the month
to_timestamp(p) == <<p[1], p[2], 1>>

\* Period ordering and astype(str): "YYYY-MM", ordered as YYYYMM
PeriodStr(p) == p[1] * 100 + p[2]

\* ~Series.duplicated(keep='first')
NotDuplicated(col) ==
    [i \in 1..Len(col) |-> \A j \in 1..(i - 1) : col[j] # col[i]]

Column(rows, name) == [i \in 1..Len(rows) |-> rows[i][name]]

SHIPPING_FEE == 15

(***************************************************************************)
(* analyse_data                                                            *)
(***************************************************************************)
\* variant: the Revenue column is computed only when the table lacks it
LineRevenue_cached(rows) ==
    IF "Revenue" \in columns THEN Revenue
    ELSE [i \in 1..Len(rows) |-> rows[i].QTY * rows[i].UnitPrice]

\* line 16
LineRevenue(rows) == [i \in 1..Len(rows) |-> rows[i].QTY * rows[i].UnitPrice]

\* groupby('Order ID').agg(...).reset_index(), then shipping fee and profit
OrderGroups(rows, rev) ==
    LET ids == SortedKeys({rows[i].OrderID : i \in 1..Len(rows)})
        grp(o) == {i \in 1..Len(rows) : rows[i].OrderID = o}
        cost == [i \in 1..Len(rows) |-> rows[i].UnitCost * rows[i].QTY]
    IN [k \in 1..Len(ids) |->
          LET g == grp(ids[k])
              revenue == SumIdx(rev, g) + SHIPPING_FEE
              unitcost == SumIdx(cost, g)
          IN [OrderID |-> ids[k],
              Email |-> rows[Min(g)].Email,
              DatePlaced |-> rows[Min(g)].DatePlaced,
              Revenue |-> revenue,
              UnitCost |-> unitcost,
              Profit |-> revenue - unitcost]]

SortByDate(orders) ==
    Permute(orders, StableOrder([k \in 1..Len(orders) |-> Ordinal(orders[k].DatePlaced)]))

first_purchase_dates(orders, e) ==
    Min({Ordinal(orders[k].DatePlaced) : k \in {j \in 1..Len(orders) : orders[j].Email = e}})

\* variant: the comparison of line 38 is not strict
CustomerType_not_strict(orders, k) ==
    IF Ordinal(orders[k].DatePlaced) >= first_purchase_dates(orders, orders[k].Email)
    THEN "Repeat" ELSE "First-time"

CustomerType(orders, k) ==
    IF Ordinal(orders[k].DatePlaced) > first_purchase_dates(orders, orders[k].Email)
    THEN "Repeat" ELSE "First-time"

OrderData(rows, rev) ==
    LET sorted == SortByDate(OrderGroups(rows, rev))
    IN [k \in 1..Len(sorted) |->
          [OrderID |-> sorted[k].OrderID,
           Email |-> sorted[k].Email,
           DatePlaced |-> sorted[k].DatePlaced,
           Revenue |-> sorted[k].Revenue,
           UnitCost |-> sorted[k].UnitCost,
           Profit |-> sorted[k].Profit,
           CustomerType |-> CustomerType(sorted, k),
           MonthYear |-> to_period(sorted[k].DatePlaced)]]

\* variant: the loop of lines 54-57 is left out
EnsureColumns_left_out(row) == row

\* the loop of lines 54-57: a missing customer-type column is added as 0
EnsureColumns(row) ==
    LET missing == {"First-time", "Repeat"} \ DOMAIN row
    IN [c \in DOMAIN row \cup missing |-> IF c \in DOMAIN row THEN row[c] ELSE 0]

\* groupby(['Month-Year','Customer Type']).<cell>.unstack(fill_value=0):
\* a cell adds up the weight of the orders of its group (1 each for size(),
\* the order's Revenue for ['Revenue'].sum())
Pivot(orders, weight) ==
    LET months == SortedKeys({PeriodStr(orders[k].MonthYear) : k \in 1..Len(orders)})
        types == {orders[k].CustomerType : k \in 1..Len(orders)}
        grp(m, t) == {k \in 1..Len(orders) :
                        PeriodStr(orders[k].MonthYear) = m /\ orders[k].CustomerType = t}
    IN [r \in 1..Len(months) |->
          EnsureColumns(
            [c \in {"Month-Year"} \cup types |->
               IF c = "Month-Year" THEN months[r]
               ELSE IF grp(months[r], c) = {} THEN 0
               ELSE SumIdx(weight, grp(months[r], c))])]

CountData(orders) == Pivot(orders, [k \in 1..Len(orders) |-> 1])

RevenueData(orders) == Pivot(orders, [k \in 1..Len(orders) |-> orders[k].Revenue])

(***************************************************************************)
(* analyse_product_sales                                                   *)
(***************************************************************************)
IsFirstItem(rows) == NotDuplicated(Column(rows, "OrderID"))

FeeOnFirst(rows, i) == IF IsFirstItem(rows)[i] THEN SHIPPING_FEE ELSE 0

\* variant: the fee goes on every line, not on the first line of an order
ProductSalesRevenue_every_line(rows) ==
    [i \in 1..Len(rows) |-> rows[i].QTY * rows[i].UnitPrice + SHIPPING_FEE]

\* lines 63, 67-68
ProductSalesRevenue(rows) ==
    [i \in 1..Len(rows) |-> rows[i].QTY * rows[i].UnitPrice + FeeOnFirst(rows, i)]

\* lines 64, 67, 69
ProductSalesProfit(rows) ==
    [i \in 1..Len(rows) |->
        (rows[i].UnitPrice - rows[i].UnitCost) * rows[i].QTY + FeeOnFirst(rows, i)]

\* a mean and a ratio are kept exact, as <<numerator, denominator>>
ProductGroups(rows, rev, prof) ==
    LET skus == SortedKeys({rows[i].SKU : i \in 1..Len(rows)})
        grp(s) == {i \in 1..Len(rows) : rows[i].SKU = s}
    IN [k \in 1..Len(skus) |->
          LET g == grp(skus[k])
          IN [SKU |-> skus[k],
              QTY |-> SumIdx(Column(rows, "QTY"), g),
              Revenue |-> SumIdx(rev, g),
              Profit |-> SumIdx(prof, g),
              UnitPrice |-> <<SumIdx(Column(rows, "UnitPrice"), g), Cardinality(g)>>,
              UnitCost |-> <<SumIdx(Column(rows, "UnitCost"), g), Cardinality(g)>>,
              ProfitMargin |-> <<SumIdx(prof, g), SumIdx(rev, g)>>]]

ProductAnalysis(rows, rev, prof) ==
    LET groups == ProductGroups(rows, rev, prof)
    IN Permute(groups, StableOrder([k \in 1..Len(groups) |-> 0 - groups[k].Revenue]))

(***************************************************************************)
(* analyse_profitability_over_time                                         *)
(***************************************************************************)
\* variant: line 90 is missing and the fee is added to the Profit column
\* already on the table
ProfitabilityProfit_stacked(rows) ==
    [i \in 1..Len(rows) |->
        (IF "Profit" \in columns THEN Profit[i]
         ELSE (rows[i].UnitPrice - rows[i].UnitCost) * rows[i].QTY) + FeeOnFirst(rows, i)]

\* lines 90, 93-94: Profit is recomputed from the base columns
ProfitabilityProfit(rows) ==
    [i \in 1..Len(rows) |->
        (rows[i].UnitPrice - rows[i].UnitCost) * rows[i].QTY + FeeOnFirst(rows, i)]

\* line 95: the fee is added to the Revenue column already on the table
ProfitabilityRevenue(rows, rev) ==
    [i \in 1..Len(rows) |-> rev[i] + FeeOnFirst(rows, i)]

\* variant: the running sum stops one month short
cumsum_exclusive(seq) == [k \in 1..Len(seq) |-> SumIdx(seq, 1..(k - 1))]

cumsum(seq) == [k \in 1..Len(seq) |-> SumIdx(seq, 1..k)]

Profitability(rows, prof, rev) ==
    LET months == SortedKeys({PeriodStr(to_period(rows[i].DatePlaced)) : i \in 1..Len(rows)})
        grp(m) == {i \in 1..Len(rows) : PeriodStr(to_period(rows[i].DatePlaced)) = m}
        first(m) == CHOOSE i \in grp(m) : TRUE
        monthly == [k \in 1..Len(months) |-> SumIdx(prof, grp(months[k]))]
    IN [k \in 1..Len(months) |->
          [DatePlaced |-> to_timestamp(to_period(rows[first(months[k])].DatePlaced)),
           Profit |-> monthly[k],
           Revenue |-> SumIdx(rev, grp(months[k])),
           CumulativeProfit |-> cumsum(monthly)[k]]]

(***************************************************************************)
(* analyse_first_and_repeat_purchases                                      *)
(***************************************************************************)
\* sort_values(['Email', 'Date placed']): a stable sort on the last key,
\* then a stable sort on the first
df_sorted(rows) ==
    LET byDate == Permute(rows, StableOrder([i \in 1..Len(rows) |-> Ordinal(rows[i].DatePlaced)]))
    IN Permute(byDate, StableOrder(Column(byDate, "Email")))

is_first_purchase(sorted) == NotDuplicated(Column(sorted, "Email"))

\* Series.value_counts(): the SKUs that occur among the selected lines, counted
value_counts(sorted, sel) ==
    LET skus == {sorted[i].SKU : i \in sel}
    IN [s \in skus |-> Cardinality({i \in sel : sorted[i].SKU = s})]

\* variant: how='inner'
MergeKeys_inner(first, repeat) == DOMAIN first \cap DOMAIN repeat

\* pd.merge(..., on='SKU', how='outer'): the keys of the result
MergeKeys(first, repeat) == DOMAIN first \cup DOMAIN repeat

\* fillna(0) on a count that one side of the merge lacks
Filled(counts, s) == IF s \in DOMAIN counts THEN counts[s] ELSE 0

PurchaseAnalysis(rows) ==
    LET sorted == df_sorted(rows)
        flag == is_first_purchase(sorted)
        first_purchase_counts == value_counts(sorted, {i \in 1..Len(sorted) : flag[i]})
        repeat_purchase_counts == value_counts(sorted, {i \in 1..Len(sorted) : ~flag[i]})
        skus == SortedKeys(MergeKeys(first_purchase_counts, repeat_purchase_counts))
        merged == [k \in 1..Len(skus) |->
                     [SKU |-> skus[k],
                      FirstPurchaseCount |-> Filled(first_purchase_counts, skus[k]),
                      RepeatPurchaseCount |-> Filled(repeat_purchase_counts, skus[k]),
                      RepeatToFirstRatio |-> <<Filled(repeat_purchase_counts, skus[k]),
                                               Filled(first_purchase_counts, skus[k])>>]]
    IN Permute(merged, StableOrder([k \in 1..Len(merged) |-> 0 - merged[k].FirstPurchaseCount]))

(***************************************************************************)
(* The aggregators as operations on the shared table                       *)
(***************************************************************************)
NoColumn(rows) == [i \in 1..Len(rows) |-> 0]

NoFlag(rows) == [i \in 1..Len(rows) |-> FALSE]

\* load_data: the parsed table carries the base columns only
load_data(table) ==
    /\ df = table
    /\ columns = {}
    /\ Revenue = NoColumn(table)
    /\ Profit = NoColumn(table)
    /\ Is_First_Item = NoFlag(table)

NoResults ==
    /\ count_data = <<>>
    /\ revenue_data = <<>>
    /\ order_data = <<>>
    /\ product_analysis = <<>>
    /\ profitability_data = <<>>
    /\ first_repeat_analysis = <<>>

analyse_data ==
    /\ Revenue' = LineRevenue(df)
    /\ columns' = columns \cup {"Revenue"}
    /\ order_data' = OrderData(df, Revenue')
    /\ count_data' = CountData(order_data')
    /\ revenue_data' = RevenueData(order_data')
    /\ UNCHANGED <<df, Profit, Is_First_Item, product_analysis,
                   profitability_data, first_repeat_analysis>>

analyse_product_sales ==
    /\ Revenue' = ProductSalesRevenue(df)
    /\ Profit' = ProductSalesProfit(df)
    /\ Is_First_Item' = IsFirstItem(df)
    /\ columns' = columns \cup {"Revenue", "Profit", "Is_First_Item"}
    /\ product_analysis' = ProductAnalysis(df, Revenue', Profit')
    /\ UNCHANGED <<df, count_data, revenue_data, order_data,
                   profitability_data, first_repeat_analysis>>

\* On a table without a Revenue column line 95 raises KeyError, after
\* lines 90-94 have written Profit and Is_First_Item.
analyse_profitability_over_time(next) ==
    /\ Profit' = ProfitabilityProfit(df)
    /\ Is_First_Item' = IsFirstItem(df)
    /\ IF "Revenue" \in columns
       THEN /\ Revenue' = ProfitabilityRevenue(df, Revenue)
            /\ columns' = columns \cup {"Profit", "Is_First_Item"}
            /\ profitability_data' = Profitability(df, Profit', Revenue')
            /\ pc' = next
       ELSE /\ columns' = columns \cup {"Profit", "Is_First_Item"}
            /\ pc' = "KeyError"
            /\ UNCHANGED <<Revenue, profitability_data>>
    /\ UNCHANGED <<df, count_data, revenue_data, order_data,
                   product_analysis, first_repeat_analysis, run>>

analyse_first_and_repeat_purchases ==
    /\ first_repeat_analysis' = PurchaseAnalysis(df)
    /\ UNCHANGED <<df, columns, Revenue, Profit, Is_First_Item, count_data,
                   revenue_data, order_data, product_analysis, profitability_data>>

(***************************************************************************)
(* main(): the four aggregators in sequence on one table                   *)
(***************************************************************************)
Init ==
    /\ \E table \in Tables : load_data(table)
    /\ NoResults
    /\ pc = "analyse_data"
    /\ run = 1

MainAnalyseData ==
    /\ pc = "analyse_data"
    /\ analyse_data
    /\ pc' = "analyse_product_sales"
    /\ UNCHANGED run

MainAnalyseProductSales ==
    /\ pc = "analyse_product_sales"
    /\ analyse_product_sales
    /\ pc' = "analyse_profitability_over_time"
    /\ UNCHANGED run

MainAnalyseProfitability ==
    /\ pc = "analyse_profitability_over_time"
    /\ analyse_profitability_over_time("analyse_first_and_repeat_purchases")

MainAnalyseFirstAndRepeat ==
    /\ pc = "analyse_first_and_repeat_purchases"
    /\ analyse_first_and_repeat_purchases
    /\ pc' = "done"
    /\ UNCHANGED run

\* the pipeline is run a second time on the same table, which still carries
\* the columns the first run wrote
Rerun ==
    /\ pc = "done"
    /\ run = 1
    /\ pc' = "analyse_data"
    /\ run' = run + 1
    /\ UNCHANGED <<df, columns, Revenue, Profit, Is_First_Item, count_data,
                   revenue_data, order_data, product_analysis,
                   profitability_data, first_repeat_analysis>>

Next ==
    \/ MainAnalyseData
    \/ MainAnalyseProductSales
    \/ MainAnalyseProfitability
    \/ MainAnalyseFirstAndRepeat
    \/ Rerun

Spec == Init /\ [][Next]_vars

(***************************************************************************)
(* The aggregators called in any order on one table                        *)
(***************************************************************************)
InitAny ==
    /\ \E table \in TablesAny : load_data(table)
    /\ NoResults
    /\ pc = "any"
    /\ run = 1

\* shipping fees line 95 has stacked on the Revenue of the first row
StackedFees == (Revenue[1] - df[1].QTY * df[1].UnitPrice) \div SHIPPING_FEE

CallAnalyseData ==
    /\ pc = "any"
    /\ analyse_data
    /\ UNCHANGED <<pc, run>>

CallAnalyseProductSales ==
    /\ pc = "any"
    /\ analyse_product_sales
    /\ UNCHANGED <<pc, run>>

CallAnalyseProfitability ==
    /\ pc = "any"
    /\ "Revenue" \in columns => StackedFees < MaxStackedFees
    /\ analyse_profitability_over_time("any")

CallAnalyseFirstAndRepeat ==
    /\ pc = "any"
    /\ analyse_first_and_repeat_purchases
    /\ UNCHANGED <<pc, run>>

NextAny ==
    \/ CallAnalyseData
    \/ CallAnalyseProductSales
    \/ CallAnalyseProfitability
    \/ CallAnalyseFirstAndRepeat

SpecAny == InitAny /\ [][NextAny]_vars

(***************************************************************************)
(* Properties                                                              *)
(***************************************************************************)
SumField(tbl, f) == SumIdx([k \in 1..Len(tbl) |-> tbl[k][f]], 1..Len(tbl))

InputOrders == {df[i].OrderID : i \in 1..Len(df)}

InputRevenue == SumIdx([i \in 1..Len(df) |-> df[i].QTY * df[i].UnitPrice], 1..Len(df))

InputMargin ==
    SumIdx([i \in 1..Len(df) |-> (df[i].UnitPrice - df[i].UnitCost) * df[i].QTY], 1..Len(df))

\* C1: as main() composes the aggregators, the Monthly Profitability output
\* counts the flat shipping fee exactly once per Order ID: the monthly
\* Revenue sums to the line revenue plus 15 per distinct Order ID, which is
\* the total Revenue of the orders of analyse_data.
C1_MonthlyRevenueCountsFeeOnce ==
    profitability_data # <<>> =>
        /\ SumField(profitability_data, "Revenue")
              = InputRevenue + SHIPPING_FEE * Cardinality(InputOrders)
        /\ SumField(profitability_data, "Revenue") = SumField(order_data, "Revenue")

\* C2: the Revenue of all SKUs of analyse_product_sales sums to the Revenue
\* of all orders of analyse_data, the fee being counted once per Order ID.
C2_ProductRevenueEqualsOrderRevenue ==
    (product_analysis # <<>> /\ order_data # <<>>) =>
        /\ SumField(product_analysis, "Revenue") = SumField(order_data, "Revenue")
        /\ SumField(product_analysis, "Revenue")
              = InputRevenue + SHIPPING_FEE * Cardinality(InputOrders)

C2_Witness ==
    /\ pc = "done"
    /\ Len(df) = 2
    /\ df[1].OrderID = df[2].OrderID
    /\ df[1].SKU # df[2].SKU
    /\ Len(product_analysis) = 2
    /\ Len(order_data) = 1

OrdersOf(e) == {k \in 1..Len(order_data) : order_data[k].Email = e}

OrderEmails == {order_data[k].Email : k \in 1..Len(order_data)}

FirstTimeOf(e) == {k \in OrdersOf(e) : order_data[k].CustomerType = "First-time"}

\* C3 as stated: every Email has exactly one First-time order in the
\* analyse_data output, every other order of that Email being Repeat.
C3_ExactlyOneFirstTime ==
    order_data # <<>> =>
        \A e \in OrderEmails :
            /\ Cardinality(FirstTimeOf(e)) = 1
            /\ \A k \in OrdersOf(e) \ FirstTimeOf(e) : order_data[k].CustomerType = "Repeat"

Earliest(k) ==
    \A j \in OrdersOf(order_data[k].Email) :
        Ordinal(order_data[k].DatePlaced) <= Ordinal(order_data[j].DatePlaced)

\* C3 amended: an order is First-time exactly when its Date placed is the
\* earliest among the orders of its Email, and Repeat otherwise; so every
\* Email has at least one First-time order, and exactly one when a single
\* order holds the earliest date.
C3_FirstTimeIffEarliestDate ==
    order_data # <<>> =>
        /\ \A k \in 1..Len(order_data) :
              /\ order_data[k].CustomerType \in {"First-time", "Repeat"}
              /\ order_data[k].CustomerType = "First-time" <=> Earliest(k)
        /\ \A e \in OrderEmails :
              /\ FirstTimeOf(e) # {}
              /\ Cardinality({k \in OrdersOf(e) : Earliest(k)}) = 1
                    => Cardinality(FirstTimeOf(e)) = 1

C3_Witness ==
    /\ Len(order_data) = 2
    /\ order_data[1].Email = order_data[2].Email
    /\ order_data[1].DatePlaced # order_data[2].DatePlaced
    /\ order_data[2].CustomerType = "Repeat"

AggregatorCalls ==
    {"analyse_data", "analyse_product_sales", "analyse_profitability_over_time",
     "analyse_first_and_repeat_purchases"}

TableUnchanged ==
    /\ df' = df
    /\ columns' = columns
    /\ Revenue' = Revenue
    /\ Profit' = Profit
    /\ Is_First_Item' = Is_First_Item

\* C4: no aggregator changes the table it is given: across every call of an
\* aggregator the table keeps its columns and its cell values.
C4_AggregatorsLeaveTableAsGiven ==
    [][(pc \in AggregatorCalls) => TableUnchanged]_vars

NonDecreasing(tbl, f) == \A k \in 1..(Len(tbl) - 1) : tbl[k][f] <= tbl[k + 1][f]

MonthsAscending(tbl) ==
    \A k \in 1..(Len(tbl) - 1) : Ordinal(tbl[k].DatePlaced) < Ordinal(tbl[k + 1].DatePlaced)

\* C5 as stated: Cumulative Profit is non-decreasing in index order if and
\* only if every month's Profit is non-negative.
C5_NonDecreasingIffAllNonNegative ==
    profitability_data # <<>> =>
        (NonDecreasing(profitability_data, "CumulativeProfit")
            <=> \A k \in 1..Len(profitability_data) : profitability_data[k].Profit >= 0)

\* C5 amended: with the months in ascending order, Cumulative Profit is
\* non-decreasing in index order if and only if every month after the
\* first has a non-negative Profit.
C5_NonDecreasingIffLaterNonNegative ==
    profitability_data # <<>> =>
        /\ MonthsAscending(profitability_data)
        /\ NonDecreasing(profitability_data, "CumulativeProfit")
              <=> \A k \in 2..Len(profitability_data) : profitability_data[k].Profit >= 0

C5_Witness ==
    /\ Len(profitability_data) = 2
    /\ profitability_data[1].Profit < 0
    /\ profitability_data[2].Profit >= 0
    /\ NonDecreasing(profitability_data, "CumulativeProfit")

InputSKUs == {df[i].SKU : i \in 1..Len(df)}

LinesOf(s) == {i \in 1..Len(df) : df[i].SKU = s}

AffinityRows(s) == {k \in 1..Len(first_repeat_analysis) : first_repeat_analysis[k].SKU = s}

\* C6: every SKU of the input has exactly one row in the
\* analyse_first_and_repeat_purchases output, no other SKU has a row, and
\* the row's First and Repeat Purchase Counts add up to the number of input
\* lines of that SKU.
C6_CountsAddUpToLines ==
    (pc = "done" \/ run > 1) =>
        /\ \A k \in 1..Len(first_repeat_analysis) : first_repeat_analysis[k].SKU \in InputSKUs
        /\ \A s \in InputSKUs :
              /\ Cardinality(AffinityRows(s)) = 1
              /\ \A k \in AffinityRows(s) :
                    first_repeat_analysis[k].FirstPurchaseCount
                      + first_repeat_analysis[k].RepeatPurchaseCount
                        = Cardinality(LinesOf(s))

C6_Witness ==
    /\ Len(first_repeat_analysis) = 2
    /\ \E k \in 1..2 : first_repeat_analysis[k].FirstPurchaseCount = 0
    /\ \E k \in 1..2 : first_repeat_analysis[k].RepeatPurchaseCount = 0

CustomerTypes == {"First-time", "Repeat"}

\* the orders of the input placed in a month: the date of an order is the
\* date of its first line
OrdersPlacedIn(m) ==
    {o \in InputOrders :
        PeriodStr(to_period(df[Min({i \in 1..Len(df) : df[i].OrderID = o})].DatePlaced)) = m}

CohortOrders(m, t) ==
    {k \in 1..Len(order_data) :
        PeriodStr(order_data[k].MonthYear) = m /\ order_data[k].CustomerType = t}

\* C7: every row of the Count and Revenue matrices has a First-time and a
\* Repeat column; a (month, customer type) combination without orders holds
\* 0; and the two counts of a month add up to the number of orders placed
\* in that month.
C7_BothColumnsAlways ==
    count_data # <<>> =>
        /\ Len(revenue_data) = Len(count_data)
        /\ \A r \in 1..Len(count_data) :
              /\ CustomerTypes \subseteq DOMAIN count_data[r]
              /\ CustomerTypes \subseteq DOMAIN revenue_data[r]
              /\ \A t \in CustomerTypes :
                    CohortOrders(count_data[r]["Month-Year"], t) = {} =>
                        /\ count_data[r][t] = 0
                        /\ revenue_data[r][t] = 0
              /\ count_data[r]["First-time"] + count_data[r]["Repeat"]
                    = Cardinality(OrdersPlacedIn(count_data[r]["Month-Year"]))

C7_Witness ==
    /\ Len(count_data) = 2
    /\ \A k \in 1..Len(order_data) : order_data[k].CustomerType = "First-time"
    /\ \A r \in 1..2 : count_data[r]["Repeat"] = 0 /\ revenue_data[r]["Repeat"] = 0

ResultsUnchanged ==
    /\ count_data' = count_data
    /\ revenue_data' = revenue_data
    /\ order_data' = order_data
    /\ product_analysis' = product_analysis
    /\ profitability_data' = profitability_data
    /\ first_repeat_analysis' = first_repeat_analysis

\* C8: a second run of the pipeline on the same table returns, from every
\* aggregator, the table the first run returned.
C8_SecondRunSameResults ==
    [][(run > 1) => ResultsUnchanged]_vars

C8_Witness ==
    /\ run = 2
    /\ pc = "done"
    /\ columns = {"Revenue", "Profit", "Is_First_Item"}
    /\ Len(df) = 2

\* a line of the one order that holds its customer's earliest date
EarliestOrderLine(i) ==
    \A j \in 1..Len(df) :
        df[j].Email = df[i].Email =>
            \/ df[j].OrderID = df[i].OrderID /\ df[j].DatePlaced = df[i].DatePlaced
            \/ Ordinal(df[i].DatePlaced) < Ordinal(df[j].DatePlaced)

\* a line of an order placed after an earlier order of its customer
LaterOrderLine(i) ==
    \E j \in 1..Len(df) :
        df[j].Email = df[i].Email /\ Ordinal(df[j].DatePlaced) < Ordinal(df[i].DatePlaced)

\* C9: every line of the earliest-dated order of an Email is counted in the
\* First Purchase Count of its SKU, and every line of a later order of that
\* Email in the Repeat Purchase Count.
C9_LinesOfFirstOrderCountedFirst ==
    first_repeat_analysis # <<>> =>
        \A k \in 1..Len(first_repeat_analysis) :
            LET s == first_repeat_analysis[k].SKU
            IN /\ first_repeat_analysis[k].FirstPurchaseCount
                    >= Cardinality({i \in LinesOf(s) : EarliestOrderLine(i)})
               /\ first_repeat_analysis[k].RepeatPurchaseCount
                    >= Cardinality({i \in LinesOf(s) : LaterOrderLine(i)})

\* C10: whichever aggregators ran before on the table, the last Cumulative
\* Profit that analyse_profitability_over_time returns is the margin of all
\* lines plus 15 per distinct Order ID, the total Profit of the orders of
\* analyse_data.
C10_LastCumulativeProfitIsTotalProfit ==
    profitability_data # <<>> =>
        LET last == profitability_data[Len(profitability_data)].CumulativeProfit
        IN /\ last = InputMargin + SHIPPING_FEE * Cardinality(InputOrders)
           /\ order_data # <<>> => last = SumField(order_data, "Profit")
           /\ \A k \in 1..Len(profitability_data) :
                 profitability_data[k].CumulativeProfit
                   = SumIdx([j \in 1..Len(profitability_data) |->
                               profitability_data[j].Profit], 1..k)

C10_Witness ==
    /\ Len(profitability_data) = 2
    /\ Len(order_data) = 2
    /\ product_analysis # <<>>
    /\ StackedFees = 2

====
